---- MODULE Spec2Model ----
(***************************************************************************)
(* Model of the effectify function-contract codec (FunctionSchema /        *)
(* SyncFunctionSchema) and of the web-handler URL processing.              *)
(*                                                                         *)
(* JavaScript values are named by tokens: "s:01" is the string '01',       *)
(* "n:1" the number 1, "b:true" the boolean true, "o:admin/123" the object *)
(* {username:'admin',password:'123'}, "o:123/y" the object                 *)
(* {username:123,password:'y'}, "promise" a Promise object that reaches a  *)
(* synchronous caller, and "undefined" the undefined value.                *)
(***************************************************************************)
EXTENDS Integers, Sequences, FiniteSets, TLC

\* ------------------------------------------------------------------ bounds

MaxCalls == 2

\* How many disposers are registered, and how many SIGTERM arrive.
MaxDisposers == 3

MaxSignals == 2

\* ------------------------------------------------------------------ values

StringValues == {"s:1", "s:01", "s:x"}

NumberValues == {"n:1"}

BooleanValues == {"b:true", "b:false"}

LoginValues == {"o:admin/123", "o:x/y"}

Values == StringValues \cup NumberValues \cup BooleanValues \cup LoginValues
            \cup {"o:123/y", "undefined", "promise"}

\* The values a caller passes to a wrapped function.
ArgValues == {"s:1", "s:01", "n:1", "o:admin/123", "o:x/y", "o:123/y"}

\* Errors: the ParseError of Schema.decodeSync / Schema.encodeSync and the
\* errors of the raw function.
ParseError == "ParseError"

RawErrors == {"RawError", "TypeError"}

\* ------------------------------------------------------------------ schemas

Ok(v) == [ok |-> TRUE, v |-> v]

Fail == [ok |-> FALSE, v |-> ParseError]

\* Schema.decodeSync(schema)(v): Encoded -> Type, or a ParseError.
decodeSync(schema, v) ==
    CASE schema = "LoginStruct" -> IF v \in LoginValues THEN Ok(v) ELSE Fail
      [] schema = "Boolean" -> IF v \in BooleanValues THEN Ok(v) ELSE Fail
      [] schema = "NumberFromString" ->
            IF v \in {"s:1", "s:01"} THEN Ok("n:1") ELSE Fail

\* Schema.encodeSync(schema)(v): Type -> Encoded, or a ParseError.
encodeSync(schema, v) ==
    CASE schema = "LoginStruct" -> IF v \in LoginValues THEN Ok(v) ELSE Fail
      [] schema = "Boolean" -> IF v \in BooleanValues THEN Ok(v) ELSE Fail
      [] schema = "NumberFromString" ->
            IF v = "n:1" THEN Ok("s:1") ELSE Fail

\* The contracts: <<argsSchema, returnSchema>>.
Contracts == { <<"LoginStruct", "Boolean">>,
               <<"NumberFromString", "NumberFromString">> }

\* The argument values tried against a contract: values of its argument
\* shape on either side of the transformation, and one of neither.
ArgsFor(c) ==
    IF c[1] = "LoginStruct" THEN {"o:admin/123", "o:x/y", "o:123/y"}
    ELSE {"s:1", "s:01", "n:1"}

\* ------------------------------------------------------------------ raw functions

RawFunctions == {"rawLoginFn", "identity", "constUndefined", "thrower", "rejecter"}

NonCallables == {"n:1", "undefined"}

Inputs == RawFunctions \cup NonCallables

\* The inputs tried with a contract: functions written for it, functions that
\* fail whatever they are given, and values that are not functions.
InputsFor(c) ==
    (Inputs \ {"rawLoginFn", "identity"})
        \cup (IF c[1] = "LoginStruct" THEN {"rawLoginFn"} ELSE {"identity"})

\* typeof input === 'function'
IsCallable(input) == input \in RawFunctions

\* What a raw function does with an argument: it returns a value (in async
\* mode: a value or a promise that resolves to it), throws synchronously, or
\* returns a promise that rejects.
RawApply(fn, a) ==
    CASE fn = "rawLoginFn" ->
            IF a = "undefined" THEN [kind |-> "throw", v |-> "TypeError"]
            ELSE [kind |-> "return",
                  v |-> IF a = "o:admin/123" THEN "b:true" ELSE "b:false"]
      [] fn = "identity" -> [kind |-> "return", v |-> a]
      [] fn = "constUndefined" -> [kind |-> "return", v |-> "undefined"]
      [] fn = "thrower" -> [kind |-> "throw", v |-> "RawError"]
      [] fn = "rejecter" -> [kind |-> "reject", v |-> "RawError"]
      [] OTHER -> [kind |-> "throw", v |-> "TypeError"]

\* ------------------------------------------------------------------ state

VARIABLES
    contract,   \* <<argsSchema, returnSchema>> given to FunctionSchema / SyncFunctionSchema
    input,      \* the value handed to the decoder / encoder
    wrapped,    \* per promise flag: the outcome of wrapping `input`
    calls,      \* the calls made to wrapped functions, in start order
    running,    \* the call that holds the JavaScript thread, 0 when it is free
    fnCalls,    \* how many times `input` has been invoked
    headers,    \* the Headers given to processUrl
    req,        \* the boundary request (HttpServerRequest)
    urlResult,  \* the exit of the processUrl effect
    handler,    \* what the web handler does with a request
    norm,       \* the exit of ServerRequestToRequest
    handled,    \* the requests the web handler was called with
    webResult,  \* the exit of tryWebHandler
    out,        \* the HttpServerResponse of ResponseToHttpServerResponse
    inbound,    \* the Request an endpoint of buildEndpoint is invoked with
    context,    \* the APIContext of that invocation
    endpointHandler,  \* what the handler given to buildEndpoint does
    endpointPc,       \* where the invocation of the endpoint is
    received,         \* the requests that handler was called with
    endpointResponse, \* the Response the endpoint resolved with
    consoleErrors,    \* what the endpoint wrote with console.error
    _request,         \* the local _request of that invocation
    processOn,        \* whether process and process.on exist
    sigtermDisposers, \* the module's array of disposers
    sigtermBound,     \* the module's flag: the listener was bound
    listeners,        \* how many SIGTERM listeners the process has
    signals,          \* how many SIGTERM the process has received
    invoked,          \* the disposers called so far, in call order
    drains,           \* per run of the listener: the promises of its disposers
    exit              \* how the process ended, if it did

codecVars == <<contract, input, wrapped, calls, running, fnCalls>>

webVars == <<headers, req, urlResult, handler, norm, handled, webResult, out>>

endpointVars == <<inbound, context, endpointHandler, endpointPc, received,
                  endpointResponse, consoleErrors, _request>>

sigtermVars == <<processOn, sigtermDisposers, sigtermBound, listeners, signals,
                 invoked, drains, exit>>

vars == <<codecVars, webVars, endpointVars, sigtermVars>>

Dirs == {"decode", "encode"}

\* The compositions explored: decoder, encoder, and one wrapped by the other.
Stacks == { <<"decode">>, <<"encode">>, <<"decode", "encode">>, <<"encode", "decode">> }

argsSchema == contract[1]

returnSchema == contract[2]

NotWrapped == [st |-> "none", layers |-> <<>>, issue |-> ""]

InitCodec ==
    /\ contract \in Contracts
    /\ input \in InputsFor(contract)
    /\ wrapped = [p \in BOOLEAN |-> NotWrapped]
    /\ calls = <<>>
    /\ running = 0
    /\ fnCalls = 0

TransformArgsSwapped(dir, v) ==
    IF dir = "decode" THEN decodeSync(argsSchema, v) ELSE encodeSync(argsSchema, v)

\* The decoder wraps with encodeSync(argsSchema) / decodeSync(returnSchema),
\* the encoder with decodeSync(argsSchema) / encodeSync(returnSchema).
TransformArgs(dir, v) ==
    IF dir = "decode" THEN encodeSync(argsSchema, v) ELSE decodeSync(argsSchema, v)

TransformReturn(dir, v) ==
    IF dir = "decode" THEN decodeSync(returnSchema, v) ELSE encodeSync(returnSchema, v)

\* The decoder / encoder applied to `input` (first wrap) or to the wrapped
\* function an earlier wrap produced: the typeof check, then the wrapper.
WrapResultUnchecked(w, dir) ==
    [st |-> "ok", layers |-> Append(w.layers, dir), issue |-> ""]

WrapResult(w, dir) ==
    IF w.st = "none" /\ ~IsCallable(input)
    THEN [st |-> "fail", layers |-> <<>>, issue |-> "Expected a function"]
    ELSE [st |-> "ok", layers |-> Append(w.layers, dir), issue |-> ""]

Wrap(p, dir) ==
    /\ running = 0
    /\ wrapped[p].st # "fail"
    /\ Append(wrapped[p].layers, dir) \in Stacks
    /\ wrapped' = [wrapped EXCEPT ![p] = WrapResult(wrapped[p], dir)]
    /\ UNCHANGED <<contract, input, calls, running, fnCalls>>
    /\ UNCHANGED <<webVars, endpointVars, sigtermVars>>

\* The locals of one invocation of a wrapped function.
Locals(c) == calls[c]

\* The layer that is executing: layers[1] wraps `input`, the last layer is the
\* function the caller holds.
Layer(call) == call.layers[call.depth]

Outermost(call) == call.depth = Len(call.layers)

\* A caller invokes the wrapped function: in async mode the async function
\* body starts synchronously, in sync mode the whole call runs on the thread.
StartCall(p, a) ==
    /\ running = 0
    /\ wrapped[p].st = "ok"
    /\ a \in ArgsFor(contract)
    /\ Len(calls) < MaxCalls
    /\ calls' = Append(calls,
          [mode |-> p, layers |-> wrapped[p].layers, args |-> a,
           depth |-> Len(wrapped[p].layers), pc |-> "args", val |-> a,
           st |-> "none", trace |-> <<>>, rawArgs |-> <<>>,
           outcome |-> [status |-> "pending", v |-> "undefined"]])
    /\ running' = Len(calls) + 1
    /\ UNCHANGED <<contract, input, wrapped, fnCalls>>
    /\ UNCHANGED <<webVars, endpointVars, sigtermVars>>

ThrownToCaller(call, err) ==
    [call EXCEPT !.pc = "done", !.outcome = [status |-> "threw", v |-> err]]

\* An exception in the executing layer. Sync: it propagates to the caller.
\* Async: the layer's promise rejects; the layer above, if any, is awaiting it.
Thrown(call, err) ==
    IF ~call.mode
    THEN [call EXCEPT !.pc = "done", !.outcome = [status |-> "threw", v |-> err]]
    ELSE IF Outermost(call)
    THEN [call EXCEPT !.pc = "done", !.outcome = [status |-> "rejected", v |-> err]]
    ELSE [call EXCEPT !.depth = @ + 1, !.pc = "await", !.st = "rejected", !.val = err]

ReturnedToCaller(call, v) ==
    [call EXCEPT !.pc = "done", !.val = v,
        !.outcome = [status |-> IF call.mode THEN "resolved" ELSE "returned", v |-> v]]

\* The executing layer returns v. Sync: to the layer above or to the caller.
\* Async: the layer's promise resolves; the layer above is awaiting it.
Returned(call, v) ==
    IF Outermost(call)
    THEN [call EXCEPT !.pc = "done", !.val = v,
            !.outcome = [status |-> IF call.mode THEN "resolved" ELSE "returned", v |-> v]]
    ELSE IF call.mode
    THEN [call EXCEPT !.depth = @ + 1, !.pc = "await", !.st = "resolved", !.val = v]
    ELSE [call EXCEPT !.depth = @ + 1, !.pc = "ret", !.val = v]

\* The thread after a step that left the call in state `call`.
Thread(c, call) == IF call.pc \in {"done", "await"} THEN 0 ELSE c

Logged(call, ev) == [call EXCEPT !.trace = Append(@, ev)]

ArgsStepUnchecked(call) ==
    LET r == TransformArgs(Layer(call), call.val)
        v == IF r.ok THEN r.v ELSE call.val
    IN  IF call.depth > 1
        THEN [call EXCEPT !.depth = @ - 1, !.val = v]
        ELSE [call EXCEPT !.pc = "invoke", !.val = v]

ArgsStepSharedSlot(call) ==
    LET r == TransformArgs(Layer(call), calls[1].val)
    IN  IF ~r.ok THEN Thrown(call, r.v)
        ELSE IF call.depth > 1
        THEN [call EXCEPT !.depth = @ - 1, !.val = r.v]
        ELSE [call EXCEPT !.pc = "invoke", !.val = r.v]

\* const encodedArgs = Schema.encodeSync(argsSchema)(args)   (decoder)
\* const decodedArgs = Schema.decodeSync(argsSchema)(args)   (encoder)
ArgsStep(call) ==
    LET r == TransformArgs(Layer(call), call.val)
    IN  IF ~r.ok THEN Thrown(call, r.v)
        ELSE IF call.depth > 1
        THEN [call EXCEPT !.depth = @ - 1, !.val = r.v]
        ELSE [call EXCEPT !.pc = "invoke", !.val = r.v]

ValidateArgs(c) ==
    /\ c \in DOMAIN calls
    /\ running = c
    /\ Locals(c).pc = "args"
    /\ LET call == ArgsStep(Logged(Locals(c), "args"))
       IN  /\ calls' = [calls EXCEPT ![c] = call]
           /\ running' = Thread(c, call)
    /\ UNCHANGED <<contract, input, wrapped, fnCalls>>
    /\ UNCHANGED <<webVars, endpointVars, sigtermVars>>

InvokeStepNoAwait(call) ==
    LET o == RawApply(input, call.val)
        inv == [call EXCEPT !.rawArgs = Append(@, call.val)]
    IN  IF o.kind = "throw" THEN Thrown(inv, o.v)
        ELSE [inv EXCEPT !.pc = "ret",
                         !.val = IF o.kind = "return" /\ ~call.mode THEN o.v ELSE "promise"]

\* const result = fn(args)   /   const result = await fn(args)
InvokeStep(call) ==
    LET o == RawApply(input, call.val)
        inv == [call EXCEPT !.rawArgs = Append(@, call.val)]
    IN  IF o.kind = "throw" THEN Thrown(inv, o.v)
        ELSE IF call.mode
        THEN [inv EXCEPT !.pc = "await", !.st = "pending"]
        ELSE [inv EXCEPT !.pc = "ret",
                         !.val = IF o.kind = "return" THEN o.v ELSE "promise"]

InvokeRaw(c) ==
    /\ c \in DOMAIN calls
    /\ running = c
    /\ Locals(c).pc = "invoke"
    /\ LET call == InvokeStep(Logged(Locals(c), "invoke"))
       IN  /\ calls' = [calls EXCEPT ![c] = call]
           /\ running' = Thread(c, call)
    /\ fnCalls' = fnCalls + 1
    /\ UNCHANGED <<contract, input, wrapped>>
    /\ UNCHANGED <<webVars, endpointVars, sigtermVars>>

\* The promise the raw function returned settles (async mode).
SettleRaw(c) ==
    /\ c \in DOMAIN calls
    /\ calls[c].pc = "await"
    /\ calls[c].st = "pending"
    /\ LET o == RawApply(input, calls[c].rawArgs[Len(calls[c].rawArgs)])
       IN  calls' = [calls EXCEPT ![c] =
              [Logged(calls[c], "settled") EXCEPT
                  !.st = IF o.kind = "reject" THEN "rejected" ELSE "resolved",
                  !.val = o.v]]
    /\ UNCHANGED <<contract, input, wrapped, running, fnCalls>>
    /\ UNCHANGED <<webVars, endpointVars, sigtermVars>>

ResumeStepSwallow(call) ==
    [call EXCEPT !.pc = "ret", !.st = "none",
                 !.val = IF call.st = "resolved" THEN call.val ELSE "undefined"]

\* The continuation after `await` runs once the thread is free: a fulfilled
\* promise yields its value, a rejected one rethrows inside the layer.
ResumeStep(call) ==
    IF call.st = "resolved"
    THEN [call EXCEPT !.pc = "ret", !.st = "none"]
    ELSE Thrown([call EXCEPT !.st = "none"], call.val)

Resume(c) ==
    /\ c \in DOMAIN calls
    /\ running = 0
    /\ Locals(c).pc = "await"
    /\ Locals(c).st \in {"resolved", "rejected"}
    /\ LET call == ResumeStep(Locals(c))
       IN  /\ calls' = [calls EXCEPT ![c] = call]
           /\ running' = Thread(c, call)
    /\ UNCHANGED <<contract, input, wrapped, fnCalls>>
    /\ UNCHANGED <<webVars, endpointVars, sigtermVars>>

ReturnStepPassThrough(call) ==
    LET r == TransformReturn(Layer(call), call.val)
    IN  Returned(call, IF r.ok THEN r.v ELSE call.val)

ReturnStepAsyncLenient(call) ==
    LET r == TransformReturn(Layer(call), call.val)
    IN  IF r.ok THEN Returned(call, r.v)
        ELSE IF call.mode THEN Returned(call, call.val)
        ELSE Thrown(call, r.v)

\* return Schema.decodeSync(returnSchema)(result)   (decoder)
\* return Schema.encodeSync(returnSchema)(result)   (encoder)
ReturnStep(call) ==
    LET r == TransformReturn(Layer(call), call.val)
    IN  IF ~r.ok THEN Thrown(call, r.v) ELSE Returned(call, r.v)

ValidateReturn(c) ==
    /\ c \in DOMAIN calls
    /\ running = c
    /\ Locals(c).pc = "ret"
    /\ LET call == ReturnStep(Logged(Locals(c), "ret"))
       IN  /\ calls' = [calls EXCEPT ![c] = call]
           /\ running' = Thread(c, call)
    /\ UNCHANGED <<contract, input, wrapped, fnCalls>>
    /\ UNCHANGED <<webVars, endpointVars, sigtermVars>>

\* ------------------------------------------------------------------ web handler

\* Strings of the web handler are sequences of characters.
StartsWith(s, prefix) ==
    Len(s) >= Len(prefix) /\ SubSeq(s, 1, Len(prefix)) = prefix

EndsWith(s, suffix) ==
    Len(s) >= Len(suffix) /\ SubSeq(s, Len(s) - Len(suffix) + 1, Len(s)) = suffix

\* The index of the first ch in s at or after position from, 0 when there is none.
IndexFrom(s, ch, from) ==
    LET hits == {i \in from..Len(s) : s[i] = ch}
    IN  IF hits = {} THEN 0 ELSE CHOOSE i \in hits : \A j \in hits : i <= j

HttpScheme == <<"h", "t", "t", "p">>

HttpsScheme == <<"h", "t", "t", "p", "s">>

HttpPrefix == HttpScheme \o <<":", "/", "/">>

HttpsPrefix == HttpsScheme \o <<":", "/", "/">>

\* The port a URL drops from its host because it is the scheme's default.
DefaultPort(scheme) ==
    IF scheme = HttpScheme THEN <<":", "8", "0">>
    ELSE IF scheme = HttpsScheme THEN <<":", "4", "4", "3">>
    ELSE <<>>

\* new URL(s): the protocol and host of an absolute URL, or a TypeError.
ParseUrl(s) ==
    LET colon == IndexFrom(s, ":", 1)
        scheme == SubSeq(s, 1, colon - 1)
        rest == SubSeq(s, colon + 1, Len(s))
        slash == IndexFrom(rest, "/", 3)
        authority == SubSeq(rest, 3, IF slash = 0 THEN Len(rest) ELSE slash - 1)
        port == DefaultPort(scheme)
        host == IF port # <<>> /\ EndsWith(authority, port)
                THEN SubSeq(authority, 1, Len(authority) - Len(port))
                ELSE authority
    IN  IF colon <= 1 \/ ~StartsWith(rest, <<"/", "/">>) \/ host = <<>>
        THEN [ok |-> FALSE, protocol |-> <<>>, host |-> <<>>]
        ELSE [ok |-> TRUE, protocol |-> scheme \o <<":">>, host |-> host]

\* headers.get(name): a sequence holding the value, empty when the header is absent.
HeaderValues(name) ==
    IF name = "host" THEN { <<>>, << <<"h">> >> }
    ELSE { <<>>, << HttpsScheme >>, << HttpScheme >>, << <<>> >> }

HeaderNames == {"host", "x-forwarded-proto"}

HeaderSets == {h \in [HeaderNames -> UNION {HeaderValues(n) : n \in HeaderNames}] :
                  \A n \in HeaderNames : h[n] \in HeaderValues(n)}

\* req.url as the boundary reports it.
RequestUrls == { <<"/", "a">>, <<"a">>, <<>>, <<"/", "/", "a">>,
                 HttpPrefix \o <<"h", "/", "a">>,
                 HttpsPrefix \o <<"h", "/", "a">>,
                 <<"w", "s", ":", "/", "/", "h", "/", "a">> }

\* req.originalUrl as the boundary reports it.
OriginalUrls == { HttpPrefix \o <<"o">>, HttpsPrefix \o <<"o">>,
                  HttpPrefix \o <<"o", ":", "8", "0">>, <<"o">> }

\* originalRequest.method
Methods == {"GET", "HEAD", "POST", "TRACE"}

\* originalRequest.arrayBuffer: the raw bytes, or a RequestError.
Bodies == { [ok |-> TRUE, bytes |-> <<>>], [ok |-> TRUE, bytes |-> <<7>>],
            [ok |-> FALSE, bytes |-> <<>>] }

\* The web handler returns a promise of a Response, returns a promise that
\* rejects, or throws before it returns.
Handlers == {[kind |-> "respond", value |-> ""]}
            \cup [kind : {"reject", "throw"}, value : {"Error: Handler error", "oops"}]

\* new WebHandlerError({ request, description, cause }); request is empty or
\* holds the boundary request.
WebHandlerError(r, description, cause) ==
    [tag |-> "effectify/webHandler.WebHandlerError", request |-> <<r>>,
     description |-> description, cause |-> cause]

NoError == [tag |-> "", request |-> <<>>, description |-> "", cause |-> ""]

NoUrl == [st |-> "none", url |-> <<>>, error |-> NoError]

NoRequest == [st |-> "none", read |-> FALSE, bodyInit |-> <<>>, request |-> <<>>,
              error |-> NoError]

NoResponse == [status |-> 0, headers |-> <<>>, body |-> <<>>]

NoResult == [st |-> "none", response |-> NoResponse, error |-> NoError]

NoOut == [st |-> "none", status |-> 0, headers |-> <<>>, stream |-> <<>>]

InitWeb ==
    /\ headers \in HeaderSets
    /\ req \in [url : RequestUrls, originalUrl : OriginalUrls, method : Methods,
                body : Bodies]
    /\ handler \in Handlers
    /\ urlResult = NoUrl
    /\ norm = NoRequest
    /\ handled = <<>>
    /\ webResult = NoResult
    /\ out = NoOut

ComposeUrlOriginProtocol(h, r, origin) ==
    LET host == IF h["host"] # <<>> THEN h["host"][1] ELSE origin.host
    IN  IF StartsWith(r.url, HttpPrefix) \/ StartsWith(r.url, HttpsPrefix)
        THEN r.url
        ELSE origin.protocol \o <<"/", "/">> \o host
               \o (IF StartsWith(r.url, <<"/">>) THEN r.url ELSE <<"/">> \o r.url)

ComposeUrlCoupled(h, r, origin) ==
    LET xfp == h["x-forwarded-proto"]
        forwarded == xfp # <<>> /\ xfp[1] # <<>>
        host == IF h["host"] # <<>> /\ forwarded THEN h["host"][1] ELSE origin.host
        protocol == IF forwarded THEN xfp[1] \o <<":">> ELSE origin.protocol
    IN  IF StartsWith(r.url, HttpPrefix) \/ StartsWith(r.url, HttpsPrefix)
        THEN r.url
        ELSE protocol \o <<"/", "/">> \o host
               \o (IF StartsWith(r.url, <<"/">>) THEN r.url ELSE <<"/">> \o r.url)

ComposeUrlSlashAdded(h, r, origin) ==
    LET host == IF h["host"] # <<>> THEN h["host"][1] ELSE origin.host
        xfp == h["x-forwarded-proto"]
        protocol == IF xfp # <<>> /\ xfp[1] # <<>>
                    THEN xfp[1] \o <<":">>
                    ELSE origin.protocol
    IN  IF StartsWith(r.url, HttpPrefix) \/ StartsWith(r.url, HttpsPrefix)
        THEN r.url
        ELSE protocol \o <<"/", "/">> \o host \o <<"/">> \o r.url

ComposeUrlNeverVerbatim(h, r, origin) ==
    LET host == IF h["host"] # <<>> THEN h["host"][1] ELSE origin.host
        xfp == h["x-forwarded-proto"]
        protocol == IF xfp # <<>> /\ xfp[1] # <<>>
                    THEN xfp[1] \o <<":">>
                    ELSE origin.protocol
    IN  protocol \o <<"/", "/">> \o host
          \o (IF StartsWith(r.url, <<"/">>) THEN r.url ELSE <<"/">> \o r.url)

\* The try block of processUrl, given the parsed original URL.
ComposeUrl(h, r, origin) ==
    LET host == IF h["host"] # <<>> THEN h["host"][1] ELSE origin.host
        xfp == h["x-forwarded-proto"]
        protocol == IF xfp # <<>> /\ xfp[1] # <<>>
                    THEN xfp[1] \o <<":">>
                    ELSE origin.protocol
    IN  IF StartsWith(r.url, HttpPrefix) \/ StartsWith(r.url, HttpsPrefix)
        THEN r.url
        ELSE protocol \o <<"/", "/">> \o host
               \o (IF StartsWith(r.url, <<"/">>) THEN r.url ELSE <<"/">> \o r.url)

processUrlUncaught(h, r) ==
    LET origin == ParseUrl(r.originalUrl)
    IN  IF origin.ok
        THEN [st |-> "ok", url |-> ComposeUrl(h, r, origin), error |-> NoError]
        ELSE [st |-> "die", url |-> <<>>, error |-> [NoError EXCEPT !.tag = "TypeError"]]

\* processUrl(headers, req): Effect.try around the composition.
processUrl(h, r) ==
    LET origin == ParseUrl(r.originalUrl)
    IN  IF origin.ok
        THEN [st |-> "ok", url |-> ComposeUrl(h, r, origin), error |-> NoError]
        ELSE [st |-> "fail", url |-> <<>>,
              error |-> WebHandlerError(r,
                  "An error occurred while processing the request URL", "TypeError")]

ProcessUrl ==
    /\ urlResult.st = "none"
    /\ urlResult' = processUrl(headers, req)
    /\ UNCHANGED <<headers, req, handler, norm, handled, webResult, out>>
    /\ UNCHANGED <<codecVars, endpointVars, sigtermVars>>

\* The RequestError of a failed originalRequest.arrayBuffer.
RequestError(r) ==
    [tag |-> "RequestError", request |-> <<r>>, description |-> "",
     cause |-> "ReadError"]

\* Effect.catchTag('RequestError', (error) => new WebHandlerError(error))
CatchRequestError(error) ==
    WebHandlerError(error.request[1], error.description, error.cause)

BodyInitOfNullWhenEmpty(arrayBuffer) ==
    IF Len(arrayBuffer) > 0 THEN << arrayBuffer >> ELSE <<>>

\* bodyInit after the read: a Uint8Array over the bytes, never null.
BodyInitOf(arrayBuffer) ==
    IF Len(arrayBuffer) > 0 THEN << arrayBuffer >> ELSE << <<>> >>

\* ServerRequestToRequest fails with the failure of processUrl.
FailOnUrl ==
    /\ urlResult.st = "fail"
    /\ norm.st = "none"
    /\ norm' = [norm EXCEPT !.st = "fail", !.error = urlResult.error]
    /\ UNCHANGED <<headers, req, urlResult, handler, handled, webResult, out>>
    /\ UNCHANGED <<codecVars, endpointVars, sigtermVars>>

ReadBodyAnyMethod ==
    /\ urlResult.st = "ok"
    /\ norm.st = "none"
    /\ ~norm.read
    /\ norm' = IF req.body.ok
               THEN [norm EXCEPT !.read = TRUE, !.bodyInit = BodyInitOf(req.body.bytes)]
               ELSE [norm EXCEPT !.st = "fail",
                                 !.error = CatchRequestError(RequestError(req))]
    /\ UNCHANGED <<headers, req, urlResult, handler, handled, webResult, out>>
    /\ UNCHANGED <<codecVars, endpointVars, sigtermVars>>

\* yield* originalRequest.arrayBuffer, for a method that is not GET or HEAD.
ReadBody ==
    /\ urlResult.st = "ok"
    /\ norm.st = "none"
    /\ ~norm.read
    /\ req.method # "GET" /\ req.method # "HEAD"
    /\ norm' = IF req.body.ok
               THEN [norm EXCEPT !.read = TRUE, !.bodyInit = BodyInitOf(req.body.bytes)]
               ELSE [norm EXCEPT !.st = "fail",
                                 !.error = CatchRequestError(RequestError(req))]
    /\ UNCHANGED <<headers, req, urlResult, handler, handled, webResult, out>>
    /\ UNCHANGED <<codecVars, endpointVars, sigtermVars>>

\* Methods the Request constructor refuses.
ForbiddenMethods == {"TRACE"}

\* new Request(url, { method, headers, redirect: 'manual', body }): a Request,
\* or a TypeError thrown by the constructor.
NewRequest(url, method, h, bodyInit) ==
    IF ~ParseUrl(url).ok \/ method \in ForbiddenMethods
    THEN [ok |-> FALSE, url |-> <<>>, method |-> "", headers |-> h, body |-> <<>>]
    ELSE [ok |-> TRUE, url |-> url, method |-> method, headers |-> h,
          body |-> bodyInit]

\* A throw inside the generator of Effect.fn is a defect, not a failure.
Defect(name) == [tag |-> name, request |-> <<>>, description |-> "", cause |-> ""]

BuildStep(n, url, r, h) ==
    LET request == NewRequest(url, r.method, h, n.bodyInit)
    IN  IF request.ok
        THEN [n EXCEPT !.st = "ok", !.request = << request >>]
        ELSE [n EXCEPT !.st = "die", !.error = Defect("TypeError")]

BuildRequest ==
    /\ urlResult.st = "ok"
    /\ norm.st = "none"
    /\ norm.read \/ req.method = "GET" \/ req.method = "HEAD"
    /\ norm' = BuildStep(norm, urlResult.url, req, headers)
    /\ UNCHANGED <<headers, req, urlResult, handler, handled, webResult, out>>
    /\ UNCHANGED <<codecVars, endpointVars, sigtermVars>>

\* tryWebHandler ends as ServerRequestToRequest ended when that did not succeed.
SkipHandler ==
    /\ norm.st \in {"fail", "die"}
    /\ webResult.st = "none"
    /\ webResult' = [webResult EXCEPT !.st = norm.st, !.error = norm.error]
    /\ UNCHANGED <<headers, req, urlResult, handler, norm, handled, out>>
    /\ UNCHANGED <<codecVars, endpointVars, sigtermVars>>

HandlerFailureOwnCause(res, r, cause) ==
    [res EXCEPT !.st = "fail",
                !.error = WebHandlerError(r,
                    "An error occurred while processing the request", "UnknownException")]

\* Effect.tryPromise: the catch of a handler that throws or rejects.
HandlerFailure(res, r, cause) ==
    [res EXCEPT !.st = "fail",
                !.error = WebHandlerError(r,
                    "An error occurred while processing the request", cause)]

\* try: () => handler(webHandlerRequest)
InvokeHandler ==
    /\ norm.st = "ok"
    /\ webResult.st = "none"
    /\ handled' = Append(handled, norm.request[1])
    /\ webResult' = IF handler.kind = "throw"
                    THEN HandlerFailure(webResult, req, handler.value)
                    ELSE [webResult EXCEPT !.st = "pending"]
    /\ UNCHANGED <<headers, req, urlResult, handler, norm, out>>
    /\ UNCHANGED <<codecVars, endpointVars, sigtermVars>>

\* A response header list: pairs of a name and a value.
ResponseHeaderLists ==
    { <<>>,
      << <<"content-type", <<"text/plain">>>> >>,
      << <<"x-custom-header", <<"a">>>>, <<"content-type", <<"text/plain">>>>,
         <<"x-custom-header", <<"b">>>> >>,
      << <<"set-cookie", <<"a=1">>>>, <<"set-cookie", <<"b=2">>>> >> }

\* A Response: a null body status carries no body.
Responses ==
    {r \in [status : {200, 204}, headers : ResponseHeaderLists,
            body : {<<>>, <<"">>, <<"Hello">>}] : r.status = 204 => r.body = <<>>}

\* The promise of the handler settles.
SettleHandler ==
    /\ webResult.st = "pending"
    /\ \/ /\ handler.kind = "respond"
          /\ \E r \in Responses :
                webResult' = [webResult EXCEPT !.st = "ok", !.response = r]
       \/ /\ handler.kind = "reject"
          /\ webResult' = HandlerFailure(webResult, req, handler.value)
    /\ UNCHANGED <<headers, req, urlResult, handler, norm, handled, out>>
    /\ UNCHANGED <<codecVars, endpointVars, sigtermVars>>

\* The order in which a Headers object iterates its names.
HeaderOrder == <<"content-type", "set-cookie", "x-custom-header">>

\* The values a header list holds under a name, in the order they were appended.
RECURSIVE ValuesOf(_, _)
ValuesOf(list, name) ==
    IF list = <<>> THEN <<>>
    ELSE (IF list[1][1] = name THEN << list[1][2] >> ELSE <<>>)
           \o ValuesOf(Tail(list), name)

\* The values of one name combined into one value.
RECURSIVE Combine(_)
Combine(values) ==
    IF Len(values) = 1 THEN values[1]
    ELSE values[1] \o <<", ">> \o Combine(Tail(values))

\* The entries Headers.forEach visits for one name: one combined entry, but
\* every set-cookie value on its own.
EntriesOf(list, name) ==
    LET values == ValuesOf(list, name)
    IN  IF values = <<>> THEN <<>>
        ELSE IF name = "set-cookie"
        THEN [i \in 1..Len(values) |-> <<name, values[i]>>]
        ELSE << <<name, Combine(values)>> >>

\* webResponse.headers.forEach: the entries in iteration order.
RECURSIVE ForEach(_, _)
ForEach(list, k) ==
    IF k > Len(HeaderOrder) THEN <<>>
    ELSE EntriesOf(list, HeaderOrder[k]) \o ForEach(list, k + 1)

\* responseHeaders[key] = value, for every entry in turn.
RECURSIVE AssignAll(_)
AssignAll(entries) ==
    IF entries = <<>> THEN <<>>
    ELSE LET last == entries[Len(entries)]
         IN  (last[1] :> last[2]) @@ AssignAll(SubSeq(entries, 1, Len(entries) - 1))

\* ResponseToHttpServerResponse(webResponse)
ResponseToHttpServerResponse(webResponse) ==
    [st |-> "ok",
     status |-> webResponse.status,
     headers |-> AssignAll(ForEach(webResponse.headers, 1)),
     stream |-> IF webResponse.body # <<>> THEN webResponse.body ELSE <<>>]

\* webHandlerToEffectHttpHandler hands the Response of the handler over.
ToResponse ==
    /\ webResult.st = "ok"
    /\ out.st = "none"
    /\ out' = ResponseToHttpServerResponse(webResult.response)
    /\ UNCHANGED <<headers, req, urlResult, handler, norm, handled, webResult>>
    /\ UNCHANGED <<codecVars, endpointVars, sigtermVars>>

\* ------------------------------------------------------------------ endpoint

PercentAt == <<"%", "4", "0">>

\* s.includes(sub)
Includes(s, sub) ==
    \E i \in 1..(Len(s) - Len(sub) + 1) : SubSeq(s, i, i + Len(sub) - 1) = sub

\* s.replace(/sub/g, by)
RECURSIVE ReplaceAll(_, _, _)
ReplaceAll(s, sub, by) ==
    IF s = <<>> THEN <<>>
    ELSE IF StartsWith(s, sub)
    THEN by \o ReplaceAll(SubSeq(s, Len(sub) + 1, Len(s)), sub, by)
    ELSE << Head(s) >> \o ReplaceAll(Tail(s), sub, by)

\* Where the pathname of an absolute URL begins, and where its query does.
PathStart(url) == IndexFrom(url, "/", IndexFrom(url, ":", 1) + 3)

SearchStart(url) ==
    LET q == IndexFrom(url, "?", 1) IN IF q = 0 THEN Len(url) + 1 ELSE q

\* new URL(url): origin, pathname and search.
Origin(url) == SubSeq(url, 1, PathStart(url) - 1)

Pathname(url) == SubSeq(url, PathStart(url), SearchStart(url) - 1)

Search(url) == SubSeq(url, SearchStart(url), Len(url))

LocalOrigin == HttpPrefix \o <<"l">>

\* request.url of the Request an endpoint is invoked with.
EndpointUrls ==
    { LocalOrigin \o <<"/", "a">>,
      LocalOrigin \o <<"/">> \o PercentAt \o <<"s", "/", "p">>,
      LocalOrigin \o <<"/">> \o PercentAt \o <<"s", "/">> \o PercentAt \o <<"p">>,
      LocalOrigin \o <<"/">> \o PercentAt \o <<"s", "/", "p">> \o PercentAt \o <<"1">>,
      LocalOrigin \o <<"/", "p">> \o PercentAt \o <<"1">>,
      LocalOrigin \o <<"/", "a", "?", "x", "=", "/">> \o PercentAt,
      LocalOrigin \o <<"/">> \o PercentAt \o <<"s", "?", "q", "=">> \o PercentAt }

\* A Request: id tells one Request object from another; disturbed says that
\* its body was already read.
EndpointRequests == [id : {1}, url : EndpointUrls, disturbed : BOOLEAN]

EndpointHandlers ==
    {[kind |-> "respond", value |-> ""]}
        \cup [kind : {"reject", "throw"}, value : {"Error: Internal server error", "oops"}]

\* The Responses a handler resolves with.
EndpointResponses ==
    { [status |-> 200, body |-> "Success"], [status |-> 404, body |-> "Not Found"] }

NoEndpointResponse == [status |-> 0, body |-> ""]

InitEndpoint ==
    /\ inbound \in EndpointRequests
    /\ context = [request |-> inbound]
    /\ _request = inbound
    /\ endpointHandler \in EndpointHandlers
    /\ endpointPc = "idle"
    /\ received = <<>>
    /\ endpointResponse = NoEndpointResponse
    /\ consoleErrors = <<>>

\* decodeRequestUrl(request): a new Request, or the TypeError of the Request
\* constructor given a Request whose body was already read.
decodeRequestUrl(request) ==
    LET pathname == ReplaceAll(Pathname(request.url), PercentAt, <<"@">>)
        url == Origin(request.url) \o pathname \o Search(request.url)
    IN  IF request.disturbed
        THEN [ok |-> FALSE, request |-> request]
        ELSE [ok |-> TRUE,
              request |-> [id |-> request.id + 1, url |-> url, disturbed |-> FALSE]]

InternalServerError == [status |-> 500, body |-> "Internal Server Error"]

CatchStepRethrow(errors, error) ==
    [pc |-> "rejected", response |-> NoEndpointResponse, errors |-> errors]

\* catch (error): console.error and a 500 response.
CatchStep(errors, error) ==
    [pc |-> "done", response |-> InternalServerError, errors |-> Append(errors, error)]

EnterStepSlotUntouched(ctx) ==
    LET decoded == decodeRequestUrl(ctx.request)
    IN  IF Includes(ctx.request.url, <<"/">> \o PercentAt)
        THEN IF decoded.ok
             THEN [ok |-> TRUE, request |-> decoded.request, context |-> ctx]
             ELSE [ok |-> FALSE, request |-> ctx.request, context |-> ctx]
        ELSE [ok |-> TRUE, request |-> ctx.request, context |-> ctx]

\* The endpoint up to context.request = _request.
EnterStep(ctx) ==
    LET decoded == decodeRequestUrl(ctx.request)
    IN  IF Includes(ctx.request.url, <<"/">> \o PercentAt)
        THEN IF decoded.ok
             THEN [ok |-> TRUE, request |-> decoded.request,
                   context |-> [ctx EXCEPT !.request = decoded.request]]
             ELSE [ok |-> FALSE, request |-> ctx.request, context |-> ctx]
        ELSE [ok |-> TRUE, request |-> ctx.request,
              context |-> [ctx EXCEPT !.request = ctx.request]]

EndpointEnter ==
    /\ endpointPc = "idle"
    /\ LET step == EnterStep(context)
           caught == CatchStep(consoleErrors, "TypeError")
       IN  /\ context' = step.context
           /\ _request' = step.request
           /\ IF step.ok
              THEN /\ endpointPc' = "entered"
                   /\ UNCHANGED <<endpointResponse, consoleErrors>>
              ELSE /\ endpointPc' = caught.pc
                   /\ endpointResponse' = caught.response
                   /\ consoleErrors' = caught.errors
    /\ UNCHANGED <<inbound, endpointHandler, received>>
    /\ UNCHANGED <<codecVars, webVars, sigtermVars>>

\* handler(_request, localsContext), up to the await.
EndpointInvoke ==
    /\ endpointPc = "entered"
    /\ received' = Append(received, _request)
    /\ LET caught == CatchStep(consoleErrors, endpointHandler.value)
       IN  IF endpointHandler.kind = "throw"
           THEN /\ endpointPc' = caught.pc
                /\ endpointResponse' = caught.response
                /\ consoleErrors' = caught.errors
           ELSE /\ endpointPc' = "awaiting"
                /\ UNCHANGED <<endpointResponse, consoleErrors>>
    /\ UNCHANGED <<inbound, context, endpointHandler, _request>>
    /\ UNCHANGED <<codecVars, webVars, sigtermVars>>

\* The promise of the handler settles and the endpoint resumes.
EndpointSettle ==
    /\ endpointPc = "awaiting"
    /\ LET caught == CatchStep(consoleErrors, endpointHandler.value)
       IN  \/ /\ endpointHandler.kind = "respond"
              /\ \E r \in EndpointResponses : endpointResponse' = r
              /\ endpointPc' = "done"
              /\ UNCHANGED consoleErrors
           \/ /\ endpointHandler.kind = "reject"
              /\ endpointPc' = caught.pc
              /\ endpointResponse' = caught.response
              /\ consoleErrors' = caught.errors
    /\ UNCHANGED <<inbound, context, endpointHandler, received, _request>>
    /\ UNCHANGED <<codecVars, webVars, sigtermVars>>

\* ------------------------------------------------------------------ termination

\* What a disposer does when called: its promise fulfils, rejects or never
\* settles, or the call throws before a promise is returned.
DisposerKinds == {"resolve", "reject", "hang", "throw"}

Running == [st |-> "running", code |-> 0, drain |-> 0]

InitSigterm ==
    /\ processOn \in BOOLEAN
    /\ sigtermDisposers = <<>>
    /\ sigtermBound = FALSE
    /\ listeners = 0
    /\ signals = 0
    /\ invoked = <<>>
    /\ drains = <<>>
    /\ exit = Running

BindStepAlways(bound, on, count) ==
    IF ~on THEN [bound |-> bound, listeners |-> count]
    ELSE [bound |-> TRUE, listeners |-> count + 1]

\* registerSigterm after the push: return, or set the flag and process.on.
BindStep(bound, on, count) ==
    IF bound \/ ~on THEN [bound |-> bound, listeners |-> count]
    ELSE [bound |-> TRUE, listeners |-> count + 1]

\* registerSigterm(dispose)
RegisterSigterm(kind) ==
    /\ exit.st = "running"
    /\ Len(sigtermDisposers) < MaxDisposers
    /\ sigtermDisposers' =
         Append(sigtermDisposers, [id |-> Len(sigtermDisposers) + 1, kind |-> kind])
    /\ LET step == BindStep(sigtermBound, processOn, listeners)
       IN  /\ sigtermBound' = step.bound
           /\ listeners' = step.listeners
    /\ UNCHANGED <<processOn, signals, invoked, drains, exit>>
    /\ UNCHANGED <<codecVars, webVars, endpointVars>>

\* The first disposer whose call throws, 0 when none does.
FirstThrow(disposers) ==
    LET hits == {i \in DOMAIN disposers : disposers[i].kind = "throw"}
    IN  IF hits = {} THEN 0 ELSE CHOOSE i \in hits : \A j \in hits : i <= j

\* sigtermDisposers.map((d) => d()): the disposers called, and their promises
\* unless a call threw.
MapDisposers(disposers) ==
    LET t == FirstThrow(disposers)
        last == IF t = 0 THEN Len(disposers) ELSE t
    IN  [threw |-> t # 0,
         called |-> [i \in 1..last |-> disposers[i].id],
         promises |-> [i \in 1..Len(disposers) |->
                          [id |-> disposers[i].id, kind |-> disposers[i].kind,
                           st |-> "pending"]]]

\* The process receives SIGTERM and the listener runs up to Promise.allSettled.
Sigterm ==
    /\ exit.st = "running"
    /\ listeners > 0
    /\ signals < MaxSignals
    /\ signals' = signals + 1
    /\ LET map == MapDisposers(sigtermDisposers)
       IN  /\ invoked' = invoked \o map.called
           /\ IF map.threw
              THEN /\ exit' = [exit EXCEPT !.st = "crashed"]
                   /\ UNCHANGED drains
              ELSE /\ drains' = Append(drains, map.promises)
                   /\ UNCHANGED exit
    /\ UNCHANGED <<processOn, sigtermDisposers, sigtermBound, listeners>>
    /\ UNCHANGED <<codecVars, webVars, endpointVars>>

\* The promise of a disposer settles.
SettleDisposer(k, i) ==
    /\ exit.st = "running"
    /\ k \in DOMAIN drains
    /\ i \in DOMAIN drains[k]
    /\ drains[k][i].st = "pending"
    /\ drains[k][i].kind \in {"resolve", "reject"}
    /\ drains' = [drains EXCEPT ![k][i].st =
                     IF drains[k][i].kind = "resolve" THEN "fulfilled" ELSE "rejected"]
    /\ UNCHANGED <<processOn, sigtermDisposers, sigtermBound, listeners, signals,
                   invoked, exit>>
    /\ UNCHANGED <<codecVars, webVars, endpointVars>>

ExitCodeZero(results) == 0

\* hasError ? 1 : 0
ExitCode(results) ==
    IF \E i \in DOMAIN results : results[i].st = "rejected" THEN 1 ELSE 0

AllSettledEarly(results) == \E i \in DOMAIN results : results[i].st # "pending"

\* Promise.allSettled(...) has resolved.
AllSettled(results) == \A i \in DOMAIN results : results[i].st # "pending"

\* The then-callback of Promise.allSettled: process.exit.
ProcessExit(k) ==
    /\ exit.st = "running"
    /\ k \in DOMAIN drains
    /\ AllSettled(drains[k])
    /\ exit' = [st |-> "exited", code |-> ExitCode(drains[k]), drain |-> k]
    /\ UNCHANGED <<processOn, sigtermDisposers, sigtermBound, listeners, signals,
                   invoked, drains>>
    /\ UNCHANGED <<codecVars, webVars, endpointVars>>

\* ------------------------------------------------------------------ specifications

NextCodec ==
    \/ \E p \in BOOLEAN, dir \in Dirs : Wrap(p, dir)
    \/ \E p \in BOOLEAN, a \in ArgValues : StartCall(p, a)
    \/ \E c \in 1..MaxCalls : ValidateArgs(c)
    \/ \E c \in 1..MaxCalls : InvokeRaw(c)
    \/ \E c \in 1..MaxCalls : SettleRaw(c)
    \/ \E c \in 1..MaxCalls : Resume(c)
    \/ \E c \in 1..MaxCalls : ValidateReturn(c)

NextWeb ==
    \/ ProcessUrl
    \/ FailOnUrl
    \/ ReadBody
    \/ BuildRequest
    \/ SkipHandler
    \/ InvokeHandler
    \/ SettleHandler
    \/ ToResponse

\* One request waiting at the boundary while the codec runs.
IdleWeb ==
    /\ headers = [n \in HeaderNames |-> <<>>]
    /\ req = [url |-> <<"/", "a">>, originalUrl |-> HttpPrefix \o <<"o">>,
              method |-> "GET", body |-> [ok |-> TRUE, bytes |-> <<>>]]
    /\ handler = [kind |-> "respond", value |-> ""]
    /\ urlResult = NoUrl
    /\ norm = NoRequest
    /\ handled = <<>>
    /\ webResult = NoResult
    /\ out = NoOut

NextEndpoint ==
    \/ EndpointEnter
    \/ EndpointInvoke
    \/ EndpointSettle

\* No endpoint invoked while the codec or the web handler runs.
IdleEndpoint ==
    /\ inbound = [id |-> 1, url |-> LocalOrigin \o <<"/", "a">>, disturbed |-> FALSE]
    /\ context = [request |-> inbound]
    /\ _request = inbound
    /\ endpointHandler = [kind |-> "respond", value |-> ""]
    /\ endpointPc = "idle"
    /\ received = <<>>
    /\ endpointResponse = NoEndpointResponse
    /\ consoleErrors = <<>>

NextSigterm ==
    \/ \E kind \in DisposerKinds : RegisterSigterm(kind)
    \/ Sigterm
    \/ \E k \in 1..MaxSignals, i \in 1..MaxDisposers : SettleDisposer(k, i)
    \/ \E k \in 1..MaxSignals : ProcessExit(k)

\* Nothing registered while the codec, the web handler or an endpoint runs.
IdleSigterm ==
    /\ processOn = TRUE
    /\ sigtermDisposers = <<>>
    /\ sigtermBound = FALSE
    /\ listeners = 0
    /\ signals = 0
    /\ invoked = <<>>
    /\ drains = <<>>
    /\ exit = Running

\* No function wrapped while the web handler runs.
IdleCodec ==
    /\ contract = <<"LoginStruct", "Boolean">>
    /\ input = "rawLoginFn"
    /\ wrapped = [p \in BOOLEAN |-> NotWrapped]
    /\ calls = <<>>
    /\ running = 0
    /\ fnCalls = 0

Init == InitCodec /\ InitWeb /\ InitEndpoint /\ InitSigterm

Next == NextCodec \/ NextWeb \/ NextEndpoint \/ NextSigterm

Spec == Init /\ [][Next]_vars

\* The codec alone.
CodecInit == InitCodec /\ IdleWeb /\ IdleEndpoint /\ IdleSigterm

SpecCodec == CodecInit /\ [][NextCodec]_vars

\* The web handler alone.
WebInit == IdleCodec /\ InitWeb /\ IdleEndpoint /\ IdleSigterm

SpecWeb == WebInit /\ [][NextWeb]_vars

\* One endpoint of buildEndpoint alone.
EndpointInit == IdleCodec /\ IdleWeb /\ InitEndpoint /\ IdleSigterm

SpecEndpoint == EndpointInit /\ [][NextEndpoint]_vars

\* The disposers and the SIGTERM listener alone.
SigtermInit == IdleCodec /\ IdleWeb /\ IdleEndpoint /\ InitSigterm

SpecSigterm == SigtermInit /\ [][NextSigterm]_vars

\* The event loop runs every settled promise's reactions: a disposer whose
\* promise settles does settle, and the callback of a resolved
\* Promise.allSettled does run.
FairSigterm ==
    /\ \A k \in 1..MaxSignals, i \in 1..MaxDisposers : WF_vars(SettleDisposer(k, i))
    /\ \A k \in 1..MaxSignals : WF_vars(ProcessExit(k))

SpecSigtermLive == SigtermInit /\ [][NextSigterm]_vars /\ FairSigterm

\* ------------------------------------------------------------------ properties of the codec

\* The layer the caller holds, and the layer that wraps `input`.
TopDir(call) == call.layers[Len(call.layers)]

Done(call) == call.pc = "done"

Failed(call, err) ==
    /\ Done(call)
    /\ call.outcome = [status |-> IF call.mode THEN "rejected" ELSE "threw", v |-> err]

Succeeded(call, v) ==
    /\ Done(call)
    /\ call.outcome = [status |-> IF call.mode THEN "resolved" ELSE "returned", v |-> v]

Surfaced(call) == call.outcome.status \in {"returned", "resolved"}

\* What the caller's argument must turn into for the first layer it meets.
ArgsOf(dir, v) ==
    IF dir = "decode" THEN encodeSync(argsSchema, v) ELSE decodeSync(argsSchema, v)

ReturnOf(dir, v) ==
    IF dir = "decode" THEN decodeSync(returnSchema, v) ELSE encodeSync(returnSchema, v)

\* C1: a call whose argument fails the argument-shape transformation of the
\* wrapped function fails with the ParseError (thrown in sync mode, a
\* rejection in async mode) and never invokes the raw function.
C1_ArgMismatchNeverInvokes ==
    \A c \in DOMAIN calls :
        LET call == calls[c]
        IN  ~ArgsOf(TopDir(call), call.args).ok =>
              /\ call.rawArgs = <<>>
              /\ call.trace # <<>> => Failed(call, ParseError)

C1_Witness ==
    \E c \in DOMAIN calls :
        /\ ~ArgsOf(TopDir(calls[c]), calls[c].args).ok
        /\ Failed(calls[c], ParseError)
        /\ calls[c].mode
        /\ input = "rawLoginFn"

RECURSIVE Invocations(_)
Invocations(n) ==
    IF n = 0 THEN 0 ELSE Len(calls[n].rawArgs) + Invocations(n - 1)

\* C3: wrapping a value that is not callable fails with 'Expected a function',
\* yields no wrapped function and invokes nothing; wrapping a callable value
\* succeeds, and `input` is invoked only by calls of the wrapped function,
\* never by the wrapping.
C3_NotAFunctionFailsAtWrap ==
    /\ \A p \in BOOLEAN :
          /\ ~IsCallable(input) =>
                /\ wrapped[p].st \in {"none", "fail"}
                /\ wrapped[p].st = "fail" =>
                      (wrapped[p].issue = "Expected a function" /\ wrapped[p].layers = <<>>)
          /\ IsCallable(input) => wrapped[p].st \in {"none", "ok"}
    /\ ~IsCallable(input) => (calls = <<>> /\ fnCalls = 0)
    /\ fnCalls = Invocations(Len(calls))

C3_Witness ==
    /\ ~IsCallable(input)
    /\ wrapped[TRUE].st = "fail"
    /\ wrapped[FALSE].st = "fail"

\* The positions of an event in a call's trace.
At(call, ev) == {i \in DOMAIN call.trace : call.trace[i] = ev}

Before(call, ev1, ev2) == \A i \in At(call, ev1), j \in At(call, ev2) : i < j

\* C4: in every call the argument transformations of all layers precede the
\* one invocation of the raw function, which precedes every return
\* transformation; in async mode the raw promise has settled before the
\* first return transformation starts.
C4_ValidateInvokeValidateOrder ==
    \A c \in DOMAIN calls :
        LET call == calls[c]
        IN  /\ Before(call, "args", "invoke")
            /\ Before(call, "invoke", "ret")
            /\ Before(call, "args", "ret")
            /\ Cardinality(At(call, "invoke")) <= 1
            /\ At(call, "invoke") # {} => Cardinality(At(call, "args")) = Len(call.layers)
            /\ (At(call, "ret") # {} \/ call.pc = "ret") => At(call, "invoke") # {}
            /\ call.mode =>
                  /\ Before(call, "invoke", "settled")
                  /\ Before(call, "settled", "ret")
                  /\ (At(call, "ret") # {} \/ call.pc = "ret") => At(call, "settled") # {}

C4_Witness ==
    \E c \in DOMAIN calls :
        /\ calls[c].mode
        /\ calls[c].trace = <<"args", "args", "invoke", "settled", "ret", "ret">>
        /\ Done(calls[c])

\* C5: in async mode, when the raw function throws or its promise rejects, no
\* return transformation runs for the call, the wrapped promise never
\* resolves, and once settled it is rejected with the raw function's error.
C5_AsyncRejectionPreserved ==
    \A c \in DOMAIN calls :
        LET call == calls[c]
            o == RawApply(input, call.rawArgs[1])
        IN  (call.mode /\ call.rawArgs # <<>> /\ o.kind \in {"throw", "reject"}) =>
              /\ At(call, "ret") = {}
              /\ call.pc # "ret"
              /\ ~Surfaced(call)
              /\ Done(call) => Failed(call, o.v)

C5_Witness ==
    \E c \in DOMAIN calls :
        /\ calls[c].mode
        /\ input = "rejecter"
        /\ Len(calls[c].layers) = 2
        /\ Failed(calls[c], "RawError")

RoundTrip == <<"decode", "encode">>

\* The outcome of calling the raw function directly, as a caller observes it.
SameAsRaw(call, o) ==
    CASE o.kind = "return" -> Succeeded(call, o.v)
      [] o.kind = "throw" -> Failed(call, o.v)
      [] o.kind = "reject" -> call.mode => Failed(call, o.v)

RawComputes == \A a \in Values : RawApply(input, a).kind # "reject"

\* C7: for the same contract, wrapper and argument, and a raw function that
\* computes a value, the sync call returns r exactly when the async call
\* resolves to r, and throws an error exactly when the async call rejects
\* with that error.
C7_SyncAsyncAgree ==
    RawComputes =>
        \A c1 \in DOMAIN calls, c2 \in DOMAIN calls :
            LET s1 == calls[c1]
                a2 == calls[c2]
            IN  (/\ ~s1.mode /\ a2.mode /\ Done(s1) /\ Done(a2)
                 /\ s1.layers = a2.layers /\ s1.args = a2.args) =>
                  /\ s1.outcome.v = a2.outcome.v
                  /\ s1.outcome.status = "returned" <=> a2.outcome.status = "resolved"
                  /\ s1.outcome.status = "threw" <=> a2.outcome.status = "rejected"

C7_Witness ==
    \E c1 \in DOMAIN calls, c2 \in DOMAIN calls :
        /\ ~calls[c1].mode /\ calls[c2].mode
        /\ calls[c1].layers = calls[c2].layers
        /\ calls[c1].args = calls[c2].args
        /\ calls[c1].outcome = [status |-> "threw", v |-> ParseError]
        /\ calls[c2].outcome = [status |-> "rejected", v |-> ParseError]
        /\ calls[c1].rawArgs # <<>>

\* C8: when the raw function's result fails the return-shape transformation
\* of the wrapper around it, the call fails with the ParseError and no value
\* is returned or resolved to the caller.
C8_ReturnMismatchFails ==
    \A c \in DOMAIN calls :
        LET call == calls[c]
            o == RawApply(input, call.rawArgs[1])
            r == IF o.kind = "return" THEN o.v ELSE "promise"
        IN  (/\ call.rawArgs # <<>>
             /\ o.kind # "throw"
             /\ call.mode => o.kind = "return"
             /\ ~ReturnOf(call.layers[1], r).ok) =>
              /\ ~Surfaced(call)
              /\ Done(call) => Failed(call, ParseError)

C8_Witness ==
    \E c \in DOMAIN calls :
        /\ input = "constUndefined"
        /\ calls[c].rawArgs # <<>>
        /\ At(calls[c], "ret") # {}
        /\ Failed(calls[c], ParseError)

\* The caller's argument taken down through the layers to the raw function.
RECURSIVE Descend(_, _)
Descend(ls, v) ==
    IF ls = <<>> THEN Ok(v)
    ELSE LET r == ArgsOf(ls[Len(ls)], v)
         IN  IF r.ok THEN Descend(SubSeq(ls, 1, Len(ls) - 1), r.v) ELSE Fail

\* The raw result taken up through the layers to the caller.
RECURSIVE Ascend(_, _)
Ascend(ls, v) ==
    IF ls = <<>> THEN Ok(v)
    ELSE LET r == ReturnOf(ls[1], v)
         IN  IF r.ok THEN Ascend(Tail(ls), r.v) ELSE Fail

\* The outcome a call must have, from its own argument alone.
OwnOutcome(call) ==
    LET d == Descend(call.layers, call.args)
        o == RawApply(input, d.v)
        up == Ascend(call.layers, IF o.kind = "return" THEN o.v ELSE "promise")
    IN  IF ~d.ok THEN Fail
        ELSE IF o.kind = "throw" \/ (o.kind = "reject" /\ call.mode)
        THEN [ok |-> FALSE, v |-> o.v]
        ELSE up

\* C9: however calls interleave, each call passes the transformation of its
\* own argument to the raw function and ends with the transformation of its
\* own raw result.
C9_CallsAreIndependent ==
    \A c \in DOMAIN calls :
        LET call == calls[c]
            d == Descend(call.layers, call.args)
            own == OwnOutcome(call)
        IN  /\ call.rawArgs # <<>> => (d.ok /\ call.rawArgs = <<d.v>>)
            /\ Done(call) =>
                  IF own.ok THEN Succeeded(call, own.v) ELSE Failed(call, own.v)

C9_Witness ==
    \E c1 \in DOMAIN calls, c2 \in DOMAIN calls :
        /\ c1 < c2
        /\ calls[c1].mode /\ calls[c2].mode
        /\ calls[c1].args # calls[c2].args
        /\ calls[c1].pc = "await" /\ calls[c1].st = "pending"
        /\ Succeeded(calls[c2], "b:false")

\* The three failures of a call, from its own argument: the argument does
\* not pass a layer, the raw function throws, the result does not pass a layer.
ArgumentFailure(call) == ~Descend(call.layers, call.args).ok

RawThrows(call) ==
    LET d == Descend(call.layers, call.args)
    IN  d.ok /\ RawApply(input, d.v).kind = "throw"

ReturnFailure(call) ==
    LET d == Descend(call.layers, call.args)
        o == RawApply(input, d.v)
    IN  /\ d.ok
        /\ o.kind = "return"
        /\ ~Ascend(call.layers, o.v).ok

\* C29: a call in async mode never throws to its caller: a failure of the
\* argument shape, a throw of the raw function and a failure of the return
\* shape each reject the promise it returned; a call in sync mode never
\* returns a rejected promise: each of the three is thrown out of the call.
C29_AsyncRejectsSyncThrows ==
    \A c \in DOMAIN calls :
        LET call == calls[c]
        IN  /\ call.outcome.status # (IF call.mode THEN "threw" ELSE "rejected")
            /\ (ArgumentFailure(call) \/ RawThrows(call) \/ ReturnFailure(call)) =>
                  /\ ~Surfaced(call)
                  /\ Done(call) =>
                        call.outcome.status = (IF call.mode THEN "rejected" ELSE "threw")

C29_Witness ==
    \E c1 \in DOMAIN calls, c2 \in DOMAIN calls :
        /\ calls[c1].mode /\ RawThrows(calls[c1])
        /\ Done(calls[c1]) /\ calls[c1].outcome.status = "rejected"
        /\ ~calls[c2].mode /\ ArgumentFailure(calls[c2])
        /\ Done(calls[c2]) /\ calls[c2].outcome.status = "threw"

\* ------------------------------------------------------------------ properties of the web handler

ForwardedHttps == headers["x-forwarded-proto"] = << HttpsScheme >>

\* C10 as stated: with x-forwarded-proto: https, the URL processUrl yields
\* starts with https://, whatever the request's path is.
C10_ForwardedProtoAlwaysHttps ==
    (ForwardedHttps /\ urlResult.st = "ok") => StartsWith(urlResult.url, HttpsPrefix)

\* C10, amended: with x-forwarded-proto: https, the URL processUrl yields
\* starts with https:// whatever scheme the original URL has, unless the
\* request's path itself begins with http://, which is returned verbatim.
C10_ForwardedProtoHttpsUnlessAbsolute ==
    (ForwardedHttps /\ urlResult.st = "ok") =>
        IF StartsWith(req.url, HttpPrefix)
        THEN urlResult.url = req.url
        ELSE StartsWith(urlResult.url, HttpsPrefix)

C10_Witness ==
    /\ ForwardedHttps
    /\ req.originalUrl = HttpPrefix \o <<"o">>
    /\ req.url = <<"/", "a">>
    /\ urlResult.st = "ok"
    /\ StartsWith(urlResult.url, HttpsPrefix)

\* The path begins with a scheme and "//".
BeginsWithScheme(path) ==
    LET colon == IndexFrom(path, ":", 1)
    IN  colon > 1 /\ SubSeq(path, colon + 1, colon + 2) = <<"/", "/">>

\* The path begins with one of the two schemes processUrl looks for.
BeginsWithHttp(path) == StartsWith(path, HttpPrefix) \/ StartsWith(path, HttpsPrefix)

HostHeader == headers["host"]

ForwardedProto == headers["x-forwarded-proto"]

OriginalUrl == ParseUrl(req.originalUrl)

\* scheme://host of a composed URL, from independent choices of the two parts.
Base(scheme, authority) == scheme \o <<"/", "/">> \o authority

\* C11 as stated: for a path that is not absolute, the URL processUrl yields
\* takes its authority from the host header when that is present and from the
\* original URL otherwise, and its scheme from x-forwarded-proto when that is
\* present and from the original URL otherwise.
C11_HeaderWhenPresent ==
    (urlResult.st = "ok" /\ ~BeginsWithScheme(req.url)) =>
        LET authority == IF HostHeader # <<>> THEN HostHeader[1] ELSE OriginalUrl.host
            scheme == IF ForwardedProto # <<>> THEN ForwardedProto[1] \o <<":">>
                      ELSE OriginalUrl.protocol
        IN  StartsWith(urlResult.url, Base(scheme, authority) \o <<"/">>)

\* C11, amended: the authority comes from the host header when present and
\* from the original URL otherwise; the scheme comes from x-forwarded-proto
\* when that is present with a non-empty value and from the original URL
\* otherwise; either choice is made whatever the other one is.
C11_HeaderWhenPresentAndNonEmpty ==
    (urlResult.st = "ok" /\ ~BeginsWithScheme(req.url)) =>
        LET authority == IF HostHeader # <<>> THEN HostHeader[1] ELSE OriginalUrl.host
            scheme == IF ForwardedProto # <<>> /\ ForwardedProto[1] # <<>>
                      THEN ForwardedProto[1] \o <<":">>
                      ELSE OriginalUrl.protocol
        IN  StartsWith(urlResult.url, Base(scheme, authority) \o <<"/">>)

C11_Witness ==
    /\ HostHeader = << <<"h">> >>
    /\ ForwardedProto = <<>>
    /\ req.originalUrl = HttpsPrefix \o <<"o">>
    /\ req.url = <<"/", "a">>
    /\ urlResult.st = "ok"
    /\ urlResult.url = HttpsPrefix \o <<"h", "/", "a">>

\* C12: for a path that is not absolute, with or without a leading slash, the
\* URL processUrl yields is scheme://host, then one slash, then the path
\* without its own leading slash; nothing of scheme://host ends with a slash.
C12_OneSlashBetweenHostAndPath ==
    (urlResult.st = "ok" /\ ~BeginsWithScheme(req.url)) =>
        LET path == IF StartsWith(req.url, <<"/">>) THEN Tail(req.url) ELSE req.url
            k == Len(urlResult.url) - Len(path)
            base == SubSeq(urlResult.url, 1, k - 1)
            colon == IndexFrom(base, ":", 1)
        IN  /\ k > 1
            /\ urlResult.url[k] = "/"
            /\ SubSeq(urlResult.url, k + 1, Len(urlResult.url)) = path
            /\ ParseUrl(base).ok
            /\ IndexFrom(base, "/", colon + 3) = 0

C12_Witness ==
    /\ req.url = <<"a">>
    /\ req.originalUrl = HttpPrefix \o <<"o">>
    /\ HostHeader = <<>>
    /\ ForwardedProto = <<>>
    /\ urlResult.st = "ok"
    /\ urlResult.url = HttpPrefix \o <<"o", "/", "a">>

\* C13 as stated: when the path begins with a scheme, processUrl yields the
\* path character for character, whatever the headers and the original URL.
C13_AbsoluteVerbatim ==
    (urlResult.st # "none" /\ BeginsWithScheme(req.url)) =>
        urlResult.st = "ok" /\ urlResult.url = req.url

\* C13, amended: when the path begins with http:// or https:// and the
\* original URL can be constructed, processUrl yields the path character for
\* character, whatever the headers; when the original URL cannot be
\* constructed, processUrl fails, for such a path too.
C13_HttpVerbatimWhenOriginParses ==
    (urlResult.st # "none" /\ BeginsWithHttp(req.url)) =>
        IF OriginalUrl.ok
        THEN urlResult.st = "ok" /\ urlResult.url = req.url
        ELSE urlResult.st = "fail"

C13_Witness ==
    /\ req.url = HttpsPrefix \o <<"h", "/", "a">>
    /\ HostHeader = << <<"h">> >>
    /\ ForwardedProto = << HttpScheme >>
    /\ req.originalUrl = HttpPrefix \o <<"o", ":", "8", "0">>
    /\ urlResult.st = "ok"
    /\ urlResult.url = req.url

\* C14 as stated: when constructing the original URL throws, processUrl fails
\* with a WebHandlerError whose description is "URL processing failed", whose
\* request is the boundary request and whose cause is the exception.
C14_DescriptionUrlProcessingFailed ==
    (urlResult.st # "none" /\ ~OriginalUrl.ok) =>
        /\ urlResult.st = "fail"
        /\ urlResult.error = WebHandlerError(req, "URL processing failed", "TypeError")

\* C14, amended: when constructing the original URL throws, processUrl does
\* not throw; it fails with a WebHandlerError whose description is "An error
\* occurred while processing the request URL", whose request is the boundary
\* request and whose cause is the exception.
C14_FailsWithWebHandlerError ==
    (urlResult.st # "none" /\ ~OriginalUrl.ok) =>
        /\ urlResult.st = "fail"
        /\ urlResult.error.tag = "effectify/webHandler.WebHandlerError"
        /\ urlResult.error.description
             = "An error occurred while processing the request URL"
        /\ urlResult.error.request = << req >>
        /\ urlResult.error.cause = "TypeError"

C14_Witness ==
    /\ req.originalUrl = <<"o">>
    /\ urlResult.st = "fail"
    /\ urlResult.error.request = << req >>

\* The Standard Request that ServerRequestToRequest succeeded with.
StandardRequest == norm.request[1]

Bodiless == req.method = "GET" \/ req.method = "HEAD"

\* C15: when the method of the boundary request is GET or HEAD, the Request
\* that ServerRequestToRequest yields has a null body, whatever bytes the
\* boundary reports.
C15_GetAndHeadHaveNoBody ==
    (norm.st = "ok" /\ Bodiless) => StandardRequest.body = <<>>

C15_Witness ==
    /\ req.method = "HEAD"
    /\ req.body = [ok |-> TRUE, bytes |-> <<7>>]
    /\ norm.st = "ok"
    /\ StandardRequest.method = "HEAD"
    /\ StandardRequest.body = <<>>

\* C16: when the method of the boundary request is neither GET nor HEAD, the
\* body of the Request that ServerRequestToRequest yields is not null: it
\* holds the boundary's bytes, a buffer of length zero when there are none.
C16_OtherMethodsHaveBody ==
    (norm.st = "ok" /\ ~Bodiless) =>
        /\ StandardRequest.body # <<>>
        /\ StandardRequest.body[1] = req.body.bytes

C16_Witness ==
    /\ req.method = "POST"
    /\ req.body = [ok |-> TRUE, bytes |-> <<>>]
    /\ norm.st = "ok"
    /\ StandardRequest.body = << <<>> >>

IsWebHandlerError(error) == error.tag = "effectify/webHandler.WebHandlerError"

\* C17: whenever ServerRequestToRequest does not succeed, because the body
\* could not be read or the Request could not be built, it ends in a failure
\* that is a WebHandlerError, never in a thrown exception.
C17_NormalizationFailsAsWebHandlerError ==
    (urlResult.st = "ok" /\ norm.st \notin {"none", "ok"}) =>
        norm.st = "fail" /\ IsWebHandlerError(norm.error)

\* The handler was called and threw, or the promise it returned was rejected.
HandlerFailed ==
    /\ Len(handled) = 1
    /\ handler.kind \in {"throw", "reject"}
    /\ webResult.st # "pending"

\* C18: when the handler throws or its promise rejects, tryWebHandler ends in
\* a failure that is a WebHandlerError whose description is "An error occurred
\* while processing the request", whose request is the boundary request and
\* whose cause is the value thrown or rejected with.
C18_HandlerFailureIsWrapped ==
    HandlerFailed =>
        /\ webResult.st = "fail"
        /\ IsWebHandlerError(webResult.error)
        /\ webResult.error.description = "An error occurred while processing the request"
        /\ webResult.error.request = << req >>
        /\ webResult.error.cause = handler.value

C18_Witness ==
    /\ handler = [kind |-> "throw", value |-> "oops"]
    /\ norm.st = "ok"
    /\ handled = << StandardRequest >>
    /\ webResult.st = "fail"
    /\ webResult.error.cause = "oops"

\* The names a header list holds.
NamesOf(list) == {list[i][1] : i \in DOMAIN list}

\* C19: the HttpServerResponse has the status of the Response, holds under
\* every header name of the Response the values of that name joined into one,
\* and has no stream when the Response has no body and a stream of its body
\* otherwise.
C19_StatusHeadersAndBodyPreserved ==
    out.st = "ok" =>
        LET response == webResult.response
        IN  /\ out.status = response.status
            /\ DOMAIN out.headers = NamesOf(response.headers)
            /\ \A name \in NamesOf(response.headers) :
                  out.headers[name] = Combine(ValuesOf(response.headers, name))
            /\ out.stream = response.body

\* ------------------------------------------------------------------ properties of the endpoint

\* C20: the request the handler of an endpoint receives has no %40 left in
\* the path of its URL: every one the inbound path held is a literal @ there.
C20_EveryPercentAtRestored ==
    Len(received) > 0 =>
        /\ ~Includes(Pathname(received[1].url), PercentAt)
        /\ Pathname(received[1].url)
             = ReplaceAll(Pathname(inbound.url), PercentAt, <<"@">>)

\* The invocation ran into an error: the handler threw or rejected, or
\* decodeRequestUrl threw.
DecodeFailed == Includes(inbound.url, <<"/">> \o PercentAt) /\ inbound.disturbed

EndpointError ==
    IF DecodeFailed THEN << "TypeError" >>
    ELSE IF endpointHandler.kind \in {"throw", "reject"} THEN << endpointHandler.value >>
    ELSE <<>>

C28_SlotHoldsTheRequestHandled ==
    /\ Len(received) <= 1
    /\ endpointPc = "entered" => (received = <<>> /\ context.request = _request)
    /\ Len(received) = 1 =>
          /\ received[1] = context.request
          /\ ~Includes(inbound.url, <<"/">> \o PercentAt) => received[1] = inbound

C28_Witness ==
    /\ Includes(inbound.url, <<"/">> \o PercentAt)
    /\ Len(received) = 1
    /\ received[1].id # inbound.id
    /\ context.request = received[1]

\* A step of the request failed.
StepFailed ==
    \/ urlResult.st \notin {"none", "ok"}
    \/ norm.st \notin {"none", "ok"}
    \/ webResult.st \notin {"none", "pending", "ok"}

\* C27: the steps of a request run in the order URL, Request, handler,
\* response: the handler is called at most once and only with the Request a
\* successful normalization produced, the response is converted only when
\* the handler produced it, and a failed step ends the request in a
\* WebHandlerError with no later step taken.
C27_StepsInOrder ==
    /\ norm.st # "none" => urlResult.st # "none"
    /\ norm.st = "ok" => urlResult.st = "ok"
    /\ Len(handled) <= 1
    /\ Len(handled) = 1 => (norm.st = "ok" /\ handled[1] = StandardRequest)
    /\ webResult.st \in {"pending", "ok"} => Len(handled) = 1
    /\ out.st = "ok" =>
          /\ webResult.st = "ok"
          /\ out = ResponseToHttpServerResponse(webResult.response)
    /\ StepFailed =>
          /\ out.st = "none"
          /\ urlResult.st # "ok" => norm.request = <<>>
          /\ norm.st # "ok" => handled = <<>>
          /\ webResult.st # "none" =>
                webResult.st = "fail" /\ IsWebHandlerError(webResult.error)

\* ------------------------------------------------------------------ properties of termination

\* C22: the process has at most one SIGTERM listener, one as soon as
\* registerSigterm has been called with process.on available, and none
\* without it; no later call adds a listener.
C22_OneListener ==
    /\ listeners <= 1
    /\ listeners = IF processOn /\ Len(sigtermDisposers) >= 1 THEN 1 ELSE 0

C22_Witness ==
    /\ processOn
    /\ Len(sigtermDisposers) = 2
    /\ listeners = 1

\* The ids of the disposers in the registry, in registration order.
Registered == [i \in DOMAIN sigtermDisposers |-> sigtermDisposers[i].id]

\* C23: a SIGTERM calls every disposer registered so far, whatever the other
\* disposers do, and the process exits only when every disposer that was
\* called has settled.
C23_EveryDisposerStarted ==
    /\ [][signals' = signals + 1 => invoked' = invoked \o Registered]_vars
    /\ [](exit.st = "exited" => \A k \in DOMAIN drains : AllSettled(drains[k]))

\* C24: when the listener ends the process, the exit code is 1 if a disposer
\* of its drain rejected and 0 otherwise; the listener produces no other code.
C24_ExitCode ==
    /\ exit.code \in {0, 1}
    /\ exit.st # "exited" => exit.code = 0
    /\ exit.st = "exited" =>
          (exit.code = 1 <=>
              \E i \in DOMAIN drains[exit.drain] : drains[exit.drain][i].kind = "reject")

C24_Witness ==
    /\ exit.st = "exited"
    /\ exit.code = 1
    /\ \E i, j \in DOMAIN drains[exit.drain] :
          /\ drains[exit.drain][i].st = "fulfilled"
          /\ drains[exit.drain][j].st = "rejected"

\* s is a prefix of t.
IsPrefix(s, t) == Len(s) <= Len(t) /\ SubSeq(t, 1, Len(s)) = s

\* C25: a registration only appends to the registry; no disposer is called
\* more than once; and the registry is empty once the drain has ended the
\* process.
C25_AppendOnlyDrainedOnce ==
    /\ [][IsPrefix(sigtermDisposers, sigtermDisposers')]_vars
    /\ [](\A i, j \in DOMAIN invoked : invoked[i] = invoked[j] => i = j)
    /\ [](exit.st = "exited" => sigtermDisposers = <<>>)

\* C26: once the listener has started to call disposers nothing is appended
\* to the registry, so every disposer in the registry when the process exits
\* was called by the drain that ended it.
C26_NoRegistrationDuringDrain ==
    /\ [][signals >= 1 => sigtermDisposers' = sigtermDisposers]_vars
    /\ [](exit.st = "exited" => Len(drains[exit.drain]) = Len(sigtermDisposers))

\* Every disposer of drain k settles; some disposer of drain k never does.
Settling(k) ==
    k \in DOMAIN drains /\ \A i \in DOMAIN drains[k] : drains[k][i].kind # "hang"

Hanging(k) ==
    k \in DOMAIN drains /\ \E i \in DOMAIN drains[k] : drains[k][i].kind = "hang"

====
